---- MODULE Spec2Model ----
(***************************************************************************)
(* Model of src/app/page.tsx: the Home component of the question-framing   *)
(* form.  The component's hook state is the state of the model, the event  *)
(* handlers are its actions and the useMemo values are operators over the  *)
(* state.                                                                  *)
(*                                                                         *)
(* A JavaScript string is a sequence of one-character strings.  A string   *)
(* literal of the source that is only ever copied is kept as one element   *)
(* (the summary labels, the separators); the emoji of the labels and the   *)
(* em-dash are written in ASCII.                                           *)
(***************************************************************************)
EXTENDS Integers, Sequences, FiniteSets, TLC

VARIABLES stage, question, background, goal, constraints, keywords, copied,
          inflight, timers, mounted, lastCopy

vars == <<stage, question, background, goal, constraints, keywords, copied,
          inflight, timers, mounted, lastCopy>>

fieldVars == <<question, background, goal, constraints>>
copyVars == <<copied, inflight, timers, lastCopy>>

(***************************************************************************)
(* Bounds of the model.                                                    *)
(***************************************************************************)
\* clipboard writes that may be unresolved at once
MaxInflight == 2
\* reset timers that may be pending at once
MaxTimers == 2
\* whitespace characters put around a typed text
MaxPad == 1

(***************************************************************************)
(* Constants of the source.                                                *)
(***************************************************************************)
StepKeys == <<"question", "background", "goal", "constraints">>

positivePhrases ==
  <<"Great clarity!", "Solid context!", "Thoughtful goal!", "Nice constraints!">>

warningPhrases ==
  <<"Could use more detail.", "Think about edge cases.",
    "Consider scope & timing.", "Clarify who is impacted.">>

\* three of the six quick keywords the page offers
QuickKeywords == {"frontend", "backend", "product"}

\* what String.prototype.trim strips (the members that the inputs use)
WhiteSpace == {" ", "\t", "\n"}

(***************************************************************************)
(* String helpers: String.prototype.trim, Array.prototype.join,            *)
(* Array.prototype.slice(0, n).  Array.prototype.filter is SelectSeq.      *)
(***************************************************************************)
RECURSIVE trimStart(_)
trimStart(s) ==
  IF s = <<>> THEN <<>>
  ELSE IF Head(s) \in WhiteSpace THEN trimStart(Tail(s)) ELSE s

RECURSIVE trimEnd(_)
trimEnd(s) ==
  IF s = <<>> THEN <<>>
  ELSE IF s[Len(s)] \in WhiteSpace THEN trimEnd(SubSeq(s, 1, Len(s) - 1)) ELSE s

trim(s) == trimEnd(trimStart(s))

RECURSIVE join(_, _)
join(items, sep) ==
  IF items = <<>> THEN <<>>
  ELSE IF Len(items) = 1 THEN items[1]
  ELSE items[1] \o sep \o join(Tail(items), sep)

slice(items, n) == SubSeq(items, 1, IF Len(items) < n THEN Len(items) ELSE n)

\* Math.round of num / den, for num >= 0 and den > 0
round(num, den) == (2 * num + den) \div (2 * den)

(***************************************************************************)
(* Init: the useState initial values, the component mounted, nothing       *)
(* pending.                                                                *)
(***************************************************************************)
Init ==
  /\ stage = "question"
  /\ question = <<>>
  /\ background = <<>>
  /\ goal = <<>>
  /\ constraints = <<>>
  /\ keywords = <<>>
  /\ copied = FALSE
  /\ inflight = 0
  /\ timers = 0
  /\ mounted = TRUE
  /\ lastCopy = "none"

(***************************************************************************)
(* The derived values (useMemo).                                           *)
(***************************************************************************)
progress_untrimmed ==
  LET entries == <<question, background, goal, constraints>>
      filled == Len(SelectSeq(entries, LAMBDA field : Len(field) > 0))
  IN round(filled * 100, Len(entries))

progress ==
  LET entries == <<question, background, goal, constraints>>
      filled == Len(SelectSeq(entries, LAMBDA field : Len(trim(field)) > 0))
  IN round(filled * 100, Len(entries))

\* the condition of each if in insights: field.trim().length > n
longerThan_orEqual(field, n) == Len(trim(field)) >= n

longerThan(field, n) == Len(trim(field)) > n

insights ==
  LET q == IF longerThan(question, 10)
           THEN [title |-> positivePhrases[1],
                 description |-> "Your question has enough detail to start digging in.",
                 tone |-> "positive"]
           ELSE [title |-> warningPhrases[1],
                 description |-> "Expand the core question with specifics. Try starting with who, what, when, where, why, or how.",
                 tone |-> "warning"]
      b == IF longerThan(background, 20)
           THEN [title |-> positivePhrases[2],
                 description |-> "Solid background info makes it easier to deliver a precise answer.",
                 tone |-> "positive"]
           ELSE [title |-> warningPhrases[2],
                 description |-> "Add dependencies, teammates, or previous attempts so others can avoid redundant suggestions.",
                 tone |-> "warning"]
      g == IF longerThan(goal, 10)
           THEN [title |-> positivePhrases[3],
                 description |-> "Defining success helps others tailor advice to your expectations.",
                 tone |-> "positive"]
           ELSE [title |-> warningPhrases[3],
                 description |-> "Think about the impact you want. Are you looking for a decision, a workaround, or validation?",
                 tone |-> "warning"]
      c == IF longerThan(constraints, 5)
           THEN [title |-> positivePhrases[4],
                 description |-> "Knowing constraints early reduces back-and-forth clarifications.",
                 tone |-> "positive"]
           ELSE [title |-> warningPhrases[4],
                 description |-> "Call out time limits, resources, or approvals you need. It sets expectations for possible answers.",
                 tone |-> "warning"]
  IN Append(Append(Append(Append(<<>>, q), b), g), c)

UnlockPrompt == "What would solving this unlock for you or your team?"
SignOffPrompt == "Who needs to sign off once you have an answer?"
TriedPrompt == "What have you already tried or considered?"
DonePrompt == "How will you know you're done?"
LimitsPrompt == "Are there deadlines or tools that limit your options?"

recommendedPrompts_slice5 ==
  LET p1 == IF Len(question) > 0 THEN <<UnlockPrompt, SignOffPrompt>> ELSE <<>>
      p2 == IF background = <<>> THEN Append(p1, TriedPrompt) ELSE p1
      p3 == IF goal = <<>> THEN Append(p2, DonePrompt) ELSE p2
      p4 == IF constraints = <<>> THEN Append(p3, LimitsPrompt) ELSE p3
  IN slice(p4, 5)

recommendedPrompts_trimmed ==
  LET p1 == IF Len(trim(question)) > 0 THEN <<UnlockPrompt, SignOffPrompt>> ELSE <<>>
      p2 == IF background = <<>> THEN Append(p1, TriedPrompt) ELSE p1
      p3 == IF goal = <<>> THEN Append(p2, DonePrompt) ELSE p2
      p4 == IF constraints = <<>> THEN Append(p3, LimitsPrompt) ELSE p3
  IN slice(p4, 4)

recommendedPrompts ==
  LET p1 == IF Len(question) > 0 THEN <<UnlockPrompt, SignOffPrompt>> ELSE <<>>
      p2 == IF background = <<>> THEN Append(p1, TriedPrompt) ELSE p1
      p3 == IF goal = <<>> THEN Append(p2, DonePrompt) ELSE p2
      p4 == IF constraints = <<>> THEN Append(p3, LimitsPrompt) ELSE p3
  IN slice(p4, 4)

\* the template literals' fixed parts and the separators
QuestionLabel == <<"Question: ">>
BackgroundLabel == <<"Background: ">>
GoalLabel == <<"Desired outcome: ">>
ConstraintsLabel == <<"Constraints: ">>
KeywordsLabel == <<"Keywords: ">>
Dash == <<"-">>
CommaSpace == <<", ">>
Newline == <<"\n">>

\* a || b on strings: the empty string is the only falsy string
orElse_trimmed(a, b) == IF trim(a) = <<>> THEN b ELSE a

orElse(a, b) == IF a = <<>> THEN b ELSE a

\* an array entry is a string or undefined; Boolean(entry) is false for
\* undefined and for the empty string
Defined(text) == [defined |-> TRUE, text |-> text]
Undefined == [defined |-> FALSE, text |-> <<>>]
Truthy(entry) == entry.defined /\ entry.text # <<>>

formattedSummary ==
  LET kw == [i \in 1..Len(keywords) |-> <<keywords[i]>>]
      all == << Defined(QuestionLabel \o orElse(question, Dash)),
                Defined(BackgroundLabel \o orElse(background, Dash)),
                Defined(GoalLabel \o orElse(goal, Dash)),
                Defined(ConstraintsLabel \o orElse(constraints, Dash)),
                IF Len(keywords) > 0
                THEN Defined(KeywordsLabel \o join(kw, CommaSpace))
                ELSE Undefined >>
      kept == SelectSeq(all, Truthy)
      lines == [i \in 1..Len(kept) |-> kept[i].text]
  IN join(lines, Newline)

(***************************************************************************)
(* The handlers.  Every handler but the completion of a clipboard write    *)
(* and the firing of a timer is started from the rendered page, so it can  *)
(* run only while the component is mounted.                                *)
(***************************************************************************)
setStage(key) ==
  /\ mounted
  /\ stage' = key
  /\ UNCHANGED <<fieldVars, keywords, copyVars, mounted>>

\* the FieldCard of a field is rendered only while its step is the stage
setQuestion(value) ==
  /\ mounted
  /\ stage = "question"
  /\ question' = value
  /\ UNCHANGED <<stage, background, goal, constraints, keywords, copyVars, mounted>>

setBackground(value) ==
  /\ mounted
  /\ stage = "background"
  /\ background' = value
  /\ UNCHANGED <<stage, question, goal, constraints, keywords, copyVars, mounted>>

setGoal(value) ==
  /\ mounted
  /\ stage = "goal"
  /\ goal' = value
  /\ UNCHANGED <<stage, question, background, constraints, keywords, copyVars, mounted>>

setConstraints(value) ==
  /\ mounted
  /\ stage = "constraints"
  /\ constraints' = value
  /\ UNCHANGED <<stage, question, background, goal, keywords, copyVars, mounted>>

\* the updater passed to setKeywords
toggled_keepOnlyKeyword(prev, keyword) ==
  IF \E i \in 1..Len(prev) : prev[i] = keyword
  THEN SelectSeq(prev, LAMBDA item : item = keyword)
  ELSE prev \o <<keyword>>

toggled_alwaysAppend(prev, keyword) == prev \o <<keyword>>

toggled(prev, keyword) ==
  IF \E i \in 1..Len(prev) : prev[i] = keyword
  THEN SelectSeq(prev, LAMBDA item : item # keyword)
  ELSE prev \o <<keyword>>

toggleKeyword(keyword) ==
  /\ mounted
  /\ keywords' = toggled(keywords, keyword)
  /\ UNCHANGED <<stage, fieldVars, copyVars, mounted>>

\* handleCopy up to its await: the write is started and stays unresolved
handleCopyStart ==
  /\ mounted
  /\ inflight < MaxInflight
  /\ inflight' = inflight + 1
  /\ UNCHANGED <<stage, fieldVars, keywords, copied, timers, lastCopy, mounted>>

\* handleCopy where navigator.clipboard is missing: the call throws inside
\* the try block, the catch logs it and the handler returns
handleCopyNoClipboard ==
  /\ mounted
  /\ lastCopy' = "failed"
  /\ UNCHANGED <<stage, fieldVars, keywords, copied, inflight, timers, mounted>>

\* the awaited write resolves: setCopied(true), setTimeout(..., 2400)
writeResolved ==
  /\ inflight > 0
  /\ timers < MaxTimers
  /\ inflight' = inflight - 1
  /\ copied' = TRUE
  /\ timers' = timers + 1
  /\ lastCopy' = "ok"
  /\ UNCHANGED <<stage, fieldVars, keywords, mounted>>

\* the awaited write rejects: the catch logs it and the handler returns
writeRejected ==
  /\ inflight > 0
  /\ inflight' = inflight - 1
  /\ lastCopy' = "failed"
  /\ UNCHANGED <<stage, fieldVars, keywords, copied, timers, mounted>>

\* a timer's 2400 ms have passed: setCopied(false)
timerFires ==
  /\ timers > 0
  /\ timers' = timers - 1
  /\ copied' = FALSE
  /\ UNCHANGED <<stage, fieldVars, keywords, inflight, lastCopy, mounted>>

\* the page is left: the component has no effect cleanup, so nothing that
\* is pending is cancelled
unmount ==
  /\ mounted
  /\ mounted' = FALSE
  /\ UNCHANGED <<stage, fieldVars, keywords, copyVars>>

(***************************************************************************)
(* What the user types.                                                    *)
(***************************************************************************)
Thresholds == <<10, 20, 10, 5>>

Pad(n) == [j \in 1..n |-> IF j % 2 = 1 THEN " " ELSE "\n"]
Letters(n) == [j \in 1..n |-> "x"]

\* texts around the insight threshold of field i, padded with whitespace
Typed(i) ==
  { <<>>, Pad(MaxPad), Letters(1),
    Pad(MaxPad) \o Letters(Thresholds[i]) \o Pad(MaxPad),
    Pad(MaxPad) \o Letters(Thresholds[i] + 1) \o Pad(MaxPad) }

Brief == { <<>>, <<" ", "x">> }

(***************************************************************************)
(* Spec: the whole component, with short texts.                            *)
(***************************************************************************)
Next ==
  \/ \E key \in {StepKeys[i] : i \in 1..Len(StepKeys)} : setStage(key)
  \/ \E value \in Brief : setQuestion(value)
  \/ \E value \in Brief : setBackground(value)
  \/ \E value \in Brief : setGoal(value)
  \/ \E value \in Brief : setConstraints(value)
  \/ \E keyword \in QuickKeywords : toggleKeyword(keyword)
  \/ handleCopyStart
  \/ handleCopyNoClipboard
  \/ writeResolved
  \/ writeRejected
  \/ timerFires
  \/ unmount

Spec == Init /\ [][Next]_vars

(***************************************************************************)
(* SpecForm: the form and its derived values, with texts around each       *)
(* threshold.                                                              *)
(***************************************************************************)
NextForm ==
  \/ \E key \in {StepKeys[i] : i \in 1..Len(StepKeys)} : setStage(key)
  \/ \E value \in Typed(1) : setQuestion(value)
  \/ \E value \in Typed(2) : setBackground(value)
  \/ \E value \in Typed(3) : setGoal(value)
  \/ \E value \in Typed(4) : setConstraints(value)
  \/ \E keyword \in QuickKeywords : toggleKeyword(keyword)

SpecForm == Init /\ [][NextForm]_vars

TypeOK ==
  /\ stage \in {StepKeys[i] : i \in 1..Len(StepKeys)}
  /\ copied \in BOOLEAN
  /\ mounted \in BOOLEAN
  /\ inflight \in 0..MaxInflight
  /\ timers \in 0..MaxTimers
  /\ lastCopy \in {"none", "ok", "failed"}

(***************************************************************************)
(* Vocabulary of the properties, stated without the operators above.       *)
(***************************************************************************)
Fields == <<question, background, goal, constraints>>

Solid(s) == {j \in 1..Len(s) : s[j] \notin WhiteSpace}
Largest(S) == CHOOSE m \in S : \A n \in S : n <= m
Smallest(S) == CHOOSE m \in S : \A n \in S : m <= n

\* the length of s without its leading and trailing whitespace
CoreLen(s) == IF Solid(s) = {} THEN 0 ELSE Largest(Solid(s)) - Smallest(Solid(s)) + 1

Members(items) == {items[j] : j \in 1..Len(items)}
Without(items, x) == SelectSeq(items, LAMBDA item : item # x)
Position(items, x) == CHOOSE j \in 1..Len(items) : items[j] = x

\* C1: at most one copied-reset timer is pending in every reachable state;
\* a second successful copy replaces the pending reset instead of adding one.
C1_OneTimerPending == timers <= 1

\* C2: when a copy action has ended with a failed clipboard write, copied
\* is false (and the failure was caught inside the action).
C2_FailedCopyLeavesCopiedFalse == lastCopy = "failed" => ~copied

\* C3: once the component is torn down no state update is applied any more:
\* the copied flag never changes after the teardown.
C3_NoUpdateAfterTeardown == [][~mounted => copied' = copied]_vars

\* C4: the prompts are the first 4 of: the two question prompts if question
\* is raw non-empty, the background, goal and constraints prompt for each of
\* these fields that is raw-empty, in this order; whitespace counts as text.
C4_PromptsAreFirstFour ==
  LET rank == <<UnlockPrompt, SignOffPrompt, TriedPrompt, DonePrompt, LimitsPrompt>>
      has(p) == p \in Members(recommendedPrompts)
      full == question # <<>> /\ background = <<>> /\ goal = <<>>
  IN /\ Len(recommendedPrompts) <= 4
     /\ has(UnlockPrompt) <=> Len(question) > 0
     /\ has(SignOffPrompt) <=> Len(question) > 0
     /\ has(TriedPrompt) <=> Len(background) = 0
     /\ has(DonePrompt) <=> Len(goal) = 0
     /\ has(LimitsPrompt) <=> (Len(constraints) = 0 /\ ~full)
     /\ \A i, j \in 1..Len(recommendedPrompts) :
          i < j => Position(rank, recommendedPrompts[i]) < Position(rank, recommendedPrompts[j])
     /\ Members(recommendedPrompts) \subseteq Members(rank)

\* C4 witness: a non-empty question with the other fields empty (truncation
\* drops the constraints prompt), reached after typing.
C4_Witness ==
  /\ question # <<>> /\ Solid(question) = {}
  /\ background = <<>> /\ goal = <<>> /\ constraints = <<>>
  /\ recommendedPrompts = <<UnlockPrompt, SignOffPrompt, TriedPrompt, DonePrompt>>

\* C5: insights has exactly 4 entries in the order question, background,
\* goal, constraints; entry i is positive exactly when the trimmed length of
\* its field is strictly greater than 10, 20, 10, 5, and warning otherwise.
C5_InsightsByStrictThreshold ==
  /\ Len(insights) = 4
  /\ \A i \in 1..4 :
       /\ insights[i].tone \in {"positive", "warning"}
       /\ insights[i].tone = "positive" <=> CoreLen(Fields[i]) > <<10, 20, 10, 5>>[i]
       /\ insights[i].title =
            IF insights[i].tone = "positive" THEN positivePhrases[i] ELSE warningPhrases[i]

\* C5 witness: the question is padded text of trimmed length exactly 10
\* (warning) and the constraints are padded text of trimmed length 6
\* (positive).
C5_Witness ==
  /\ CoreLen(question) = 10 /\ Len(question) > 10
  /\ insights[1].tone = "warning"
  /\ CoreLen(constraints) = 6
  /\ insights[4].tone = "positive"

\* C6: progress is 25 times the number of fields that hold a character other
\* than whitespace, hence one of 0, 25, 50, 75, 100.
C6_ProgressCountsTrimmedFields ==
  /\ progress = 25 * Cardinality({i \in 1..4 : Solid(Fields[i]) # {}})
  /\ progress \in {0, 25, 50, 75, 100}

\* C6 witness: one field holds only whitespace, exactly one other holds text.
C6_Witness ==
  /\ question # <<>> /\ Solid(question) = {}
  /\ Solid(background) # {}
  /\ goal = <<>> /\ constraints = <<>>
  /\ progress = 25

\* C7: the summary is the Question, Background, Desired outcome and
\* Constraints lines in this order, each holding the raw field or the dash
\* when the field is raw-empty, then a Keywords line iff keywords is
\* non-empty, listing the keywords in stored order separated by ", ".
C7_KeywordsLine ==
  [j \in 1..(2 * Len(keywords) - 1) |->
     IF j % 2 = 1 THEN keywords[(j + 1) \div 2] ELSE ", "]

C7_SummaryLayout ==
  LET shown(f) == IF Len(f) = 0 THEN <<"-">> ELSE f
      four == <<"Question: ">> \o shown(question) \o <<"\n">>
              \o <<"Background: ">> \o shown(background) \o <<"\n">>
              \o <<"Desired outcome: ">> \o shown(goal) \o <<"\n">>
              \o <<"Constraints: ">> \o shown(constraints)
  IN formattedSummary =
       IF keywords = <<>> THEN four
       ELSE four \o <<"\n", "Keywords: ">> \o C7_KeywordsLine

\* C7 witness: a whitespace-only field, an empty field and three keywords
\* stored in an order that is not the order of the page's buttons.
C7_Witness ==
  /\ question # <<>> /\ Solid(question) = {}
  /\ background = <<>>
  /\ keywords = <<"product", "frontend", "backend">>

\* C8: toggling any keyword twice in a row gives a list with the same
\* members, in which the members other than the keyword keep their order.
C8_ToggleTwice ==
  \A k \in QuickKeywords :
    LET twice == toggled(toggled(keywords, k), k)
    IN /\ Members(twice) = Members(keywords)
       /\ Without(twice, k) = Without(keywords, k)
       /\ Len(twice) = Len(keywords)

\* C8 witness: three keywords are stored and toggling the first one twice
\* moves it to the end.
C8_Witness ==
  /\ Len(keywords) = 3
  /\ toggled(toggled(keywords, keywords[1]), keywords[1])
       = <<keywords[2], keywords[3], keywords[1]>>

\* C9: keywords never holds the same entry twice.
C9_NoDuplicateKeywords ==
  \A i, j \in 1..Len(keywords) : keywords[i] = keywords[j] => i = j

\* C9 witness: three keywords are stored after toggles interleaved with
\* typing and a successful copy.
C9_Witness ==
  /\ Len(keywords) = 3
  /\ lastCopy = "ok"
  /\ question # <<>>

\* C10: the prompt list is empty iff question is raw-empty and background,
\* goal and constraints are all raw-non-empty; with all four fields filled
\* it is not empty.
C10_AllSetIff ==
  /\ recommendedPrompts = <<>> <=>
       (Len(question) = 0 /\ Len(background) > 0 /\ Len(goal) > 0 /\ Len(constraints) > 0)
  /\ (\A i \in 1..4 : Solid(Fields[i]) # {}) => recommendedPrompts # <<>>

\* C10 witness: the list is empty with an empty question and a
\* whitespace-only background.
C10_Witness ==
  /\ recommendedPrompts = <<>>
  /\ background # <<>> /\ Solid(background) = {}

====
